---- MODULE Spec2Model ----
(***************************************************************************)
(* Classification-and-dispatch pipeline of the AI backend service:         *)
(*   ModelRouter        (services/model-router, src/unnamed/part_000)      *)
(*   APIHandlers        (src/services/api-handlers.js)                     *)
(*   ValidationHelpers  (src/middleware/validation.js)                     *)
(*   POST /api/chat     (src/routes/chat.js)                               *)
(*   ErrorHandler       (middleware/error-handler, kept in                 *)
(*                       src/VERCEL_TROUBLESHOOTING.md)                    *)
(* Strings are sequences of one-character strings, so that lower-casing,   *)
(* trimming, regular-expression matching and String.includes are computed  *)
(* character by character as the JavaScript does.                          *)
(***************************************************************************)
EXTENDS Integers, Sequences, FiniteSets, TLC

VARIABLES keywords, routingModels, providers, pc, req, routingResult, outcome, reply,
          netCalls, routeCalls, sent, available, toggled, stats, probes, health, hits, seen, ui

vars == <<keywords, routingModels, providers, pc, req, routingResult, outcome, reply,
          netCalls, routeCalls, sent, available, toggled, stats, probes, health, hits, seen, ui>>

None == "none"

Min(a, b) == IF a < b THEN a ELSE b

Max(a, b) == IF a > b THEN a ELSE b

(***************************************************************************)
(* Characters and JavaScript string primitives                             *)
(***************************************************************************)
LowerLetters == <<"a", "b", "c", "d", "e", "f", "g", "h", "i", "j", "k", "l", "m", "n", "o", "p", "q", "r", "s", "t", "u", "v", "w", "x", "y", "z">>

UpperLetters == <<"A", "B", "C", "D", "E", "F", "G", "H", "I", "J", "K", "L", "M", "N", "O", "P", "Q", "R", "S", "T", "U", "V", "W", "X", "Y", "Z">>

Range(s) == {s[i] : i \in 1..Len(s)}

\* \w of the regular expressions: [A-Za-z0-9_]
WordChars == Range(LowerLetters) \cup Range(UpperLetters) \cup {"0", "1", "2", "3", "4", "5", "6", "7", "8", "9"} \cup {"_"}

IsWordChar(c) == c \in WordChars

\* \s of the regular expressions (the characters of it that the inputs use)
IsSpace(c) == c \in {" ", "\t", "\n"}

UpperIndex == [c \in Range(UpperLetters) |-> CHOOSE i \in 1..26 : UpperLetters[i] = c]

ToLowerChar(c) ==
    IF c \in DOMAIN UpperIndex THEN LowerLetters[UpperIndex[c]] ELSE c

\* String.prototype.toLowerCase
toLowerCase(s) == <<>> \o [i \in 1..Len(s) |-> ToLowerChar(s[i])]

\* String.prototype.trim
trim(s) ==
    IF \A i \in 1..Len(s) : IsSpace(s[i]) THEN <<>>
    ELSE LET first == CHOOSE i \in 1..Len(s) :
                          ~IsSpace(s[i]) /\ \A j \in 1..(i - 1) : IsSpace(s[j])
             cut == CHOOSE k \in 0..(Len(s) - 1) :
                        /\ ~IsSpace(s[Len(s) - k])
                        /\ \A m \in 0..(k - 1) : IsSpace(s[Len(s) - m])
         IN  SubSeq(s, first, Len(s) - cut)

\* s.startsWith(sub, i) with i counted from 1
StartsAt(s, sub, i) ==
    /\ i >= 1
    /\ i + Len(sub) - 1 <= Len(s)
    /\ \A k \in 1..Len(sub) : s[i + k - 1] = sub[k]

\* the positions where sub occurs in s
Occurrences(s, sub) ==
    {i \in 1..(Len(s) - Len(sub) + 1) : \A k \in 1..Len(sub) : s[i + k - 1] = sub[k]}

\* String.prototype.includes
includes(s, sub) == Occurrences(s, sub) # {}

\* \b at the gap before position p (1 <= p <= Len(s)+1)
WordAt(s, p) == p >= 1 /\ p <= Len(s) /\ IsWordChar(s[p])

Boundary(s, p) == WordAt(s, p - 1) # WordAt(s, p)

\* the positions where /\bword\b/ matches in s
WholeWordMatches(s, word) ==
    {i \in Occurrences(s, word) : Boundary(s, i) /\ Boundary(s, i + Len(word))}

\* s.match(/\b(w1|w2|...)\b/) is not null
matchesWholeWord(s, words) == \E w \in words : WholeWordMatches(s, w) # {}

\* the number of matches a global regular expression finds among the match
\* positions M of a pattern of length n: the leftmost one at or after the
\* position from, then again after the end of that match
RECURSIVE CountFrom(_, _, _)
CountFrom(M, n, from) ==
    LET rest == {m \in M : m >= from}
    IN  IF rest = {} THEN 0
        ELSE 1 + CountFrom(M, n, (CHOOSE m \in rest : \A o \in rest : m <= o)
                                 + Max(n, 1))

\* s.match(new RegExp(`\\b${keyword}\\b`, 'gi')).length, 0 for null
matchCount(s, keyword) ==
    CountFrom(WholeWordMatches(toLowerCase(s), toLowerCase(keyword)),
              Len(keyword), 1)

(***************************************************************************)
(* Words: the trigger words of the source, and the words of the keyword    *)
(* lists and prompts used as inputs                                        *)
(***************************************************************************)
\* the words of the keyword lists, of the contextual triggers and of the
\* harmful patterns, as character sequences
Word ==
    [bug          |-> <<"b", "u", "g">>,
     fix          |-> <<"f", "i", "x">>,
     why          |-> <<"w", "h", "y">>,
     how          |-> <<"h", "o", "w">>,
     explain      |-> <<"e", "x", "p", "l", "a", "i", "n">>,
     story        |-> <<"s", "t", "o", "r", "y">>,
     quick        |-> <<"q", "u", "i", "c", "k">>,
     brief        |-> <<"b", "r", "i", "e", "f">>,
     short        |-> <<"s", "h", "o", "r", "t">>,
     function     |-> <<"f", "u", "n", "c", "t", "i", "o", "n">>,
     write        |-> <<"w", "r", "i", "t", "e">>,
     create       |-> <<"c", "r", "e", "a", "t", "e">>,
     code         |-> <<"c", "o", "d", "e">>,
     debug        |-> <<"d", "e", "b", "u", "g">>,
     analyze      |-> <<"a", "n", "a", "l", "y", "z", "e">>,
     poem         |-> <<"p", "o", "e", "m">>,
     ignore       |-> <<"i", "g", "n", "o", "r", "e">>,
     previous     |-> <<"p", "r", "e", "v", "i", "o", "u", "s">>,
     instructions |-> <<"i", "n", "s", "t", "r", "u", "c", "t", "i", "o", "n", "s">>]

(***************************************************************************)
(* ModelRouter                                                             *)
(***************************************************************************)
categories == <<"coding", "reasoning", "creative", "fast">>

Categories == Range(categories)

\* thresholds of applyContextualAnalysis, applyLengthHeuristics,
\* fallbackCategoryAnalysis and calculateConfidence
FastContextLength == 50

ShortLength == 30

LongLength == 200

FallbackFastLength == 50

ConfidenceLongLength == 100

\* prompt.replace(/[^\w\s]/g, ' ')
replaceSpecial_keepsAll(s) == s

replaceSpecial(s) ==
    <<>> \o [i \in 1..Len(s) |->
                IF IsWordChar(s[i]) \/ IsSpace(s[i]) THEN s[i] ELSE " "]

\* prompt.replace(/\s+/g, ' '): the first character of a whitespace run
\* becomes one space and the others, marked "", are dropped
replaceWhitespaceRuns(s) ==
    LET marked == [i \in 1..Len(s) |->
                      IF ~IsSpace(s[i]) THEN s[i]
                      ELSE IF i = 1 \/ ~IsSpace(s[i - 1]) THEN " "
                      ELSE ""]
        Kept(c) == c # ""
    IN  SelectSeq(marked, Kept)

normalizePrompt(prompt) ==
    replaceWhitespaceRuns(replaceSpecial(trim(toLowerCase(prompt))))

\* sum of matches.length over the keywords of one category
RECURSIVE keywordScore(_, _, _)
keywordScore(p, kws, i) ==
    IF i > Len(kws) THEN 0
    ELSE matchCount(p, kws[i]) + keywordScore(p, kws, i + 1)

\* the scores after the keyword loop of analyzePromptCategory
keywordScores(p, kw) == [c \in Categories |-> keywordScore(p, kw[c], 1)]

\* the words applyContextualAnalysis looks for with prompt.includes(...)
includesTriggers ==
    [c \in Categories |->
        CASE c = "coding"    -> {<<"e","r","r","o","r">>, Word.bug, Word.fix}
          [] c = "reasoning" -> {Word.why, Word.how, Word.explain}
          [] c = "creative"  -> {Word.story, <<"c","r","e","a","t","i","v","e">>,
                                 <<"i","m","a","g","i","n","e">>}
          [] c = "fast"      -> {Word.quick, Word.brief, Word.short}]

\* the words applyContextualAnalysis looks for with /\b(...)\b/
wholeWordTriggers ==
    [c \in Categories |->
        CASE c = "coding"    -> {Word.function,
                                 <<"c","l","a","s","s">>,
                                 <<"m","e","t","h","o","d">>,
                                 <<"v","a","r","i","a","b","l","e">>,
                                 <<"a","r","r","a","y">>,
                                 <<"o","b","j","e","c","t">>}
          [] c = "reasoning" -> {<<"b","e","c","a","u","s","e">>,
                                 <<"t","h","e","r","e","f","o","r","e">>,
                                 <<"t","h","u","s">>,
                                 <<"h","e","n","c","e">>,
                                 <<"c","o","n","s","e","q","u","e","n","t","l","y">>}
          [] c = "creative"  -> {Word.write, Word.create,
                                 <<"g","e","n","e","r","a","t","e">>,
                                 <<"c","o","m","p","o","s","e">>,
                                 <<"d","e","s","i","g","n">>}
          [] c = "fast"      -> {}]

\* prompt.includes(w1) || prompt.includes(w2) || ...
includesAny(p, c) == \E w \in includesTriggers[c] : includes(p, w)

codingBonus_weak(p) ==
    (IF includesAny(p, "coding") THEN 2 ELSE 0)
  + (IF matchesWholeWord(p, wholeWordTriggers["coding"]) THEN 2 ELSE 0)

codingBonus(p) ==
    (IF includesAny(p, "coding") THEN 2 ELSE 0)
  + (IF matchesWholeWord(p, wholeWordTriggers["coding"]) THEN 3 ELSE 0)

reasoningBonus(p) ==
    (IF includesAny(p, "reasoning") THEN 2 ELSE 0)
  + (IF matchesWholeWord(p, wholeWordTriggers["reasoning"]) THEN 2 ELSE 0)

creativeBonus(p) ==
    (IF includesAny(p, "creative") THEN 3 ELSE 0)
  + (IF matchesWholeWord(p, wholeWordTriggers["creative"]) THEN 2 ELSE 0)

fastBonus(p) ==
    (IF includesAny(p, "fast") THEN 3 ELSE 0)
  + (IF Len(p) < FastContextLength THEN 1 ELSE 0)

applyContextualAnalysis(p, scores) ==
    [c \in Categories |->
        scores[c] + CASE c = "coding"    -> codingBonus(p)
                      [] c = "reasoning" -> reasoningBonus(p)
                      [] c = "creative"  -> creativeBonus(p)
                      [] c = "fast"      -> fastBonus(p)]

applyLengthHeuristics(p, scores) ==
    IF Len(p) < ShortLength
    THEN [scores EXCEPT !["fast"] = @ + 2]
    ELSE IF Len(p) > LongLength
    THEN [scores EXCEPT !["reasoning"] = @ + 1, !["creative"] = @ + 1]
    ELSE scores

\* the scores analyzePromptCategory selects from
finalScores(p, kw) ==
    applyLengthHeuristics(p, applyContextualAnalysis(p, keywordScores(p, kw)))

\* the callback of Object.keys(scores).reduce(...)
reduceStep(scores, a, b) == IF scores[a] > scores[b] THEN a ELSE b

RECURSIVE reduceFrom(_, _, _)
reduceFrom(scores, a, i) ==
    IF i > Len(categories) THEN a
    ELSE reduceFrom(scores, reduceStep(scores, a, categories[i]), i + 1)

bestCategory(scores) == reduceFrom(scores, categories[1], 2)

fallbackCategoryAnalysis(p) ==
    IF Len(p) < FallbackFastLength THEN "fast"
    ELSE IF includes(p, <<"?">>) THEN "reasoning"
    ELSE IF matchesWholeWord(p, {<<"t","e","l","l">>, Word.write, Word.create,
                                 <<"m","a","k","e">>})
    THEN "creative"
    ELSE "reasoning"

analyzePromptCategory(p, kw) ==
    LET scores == finalScores(p, kw)
        best == bestCategory(scores)
    IN  IF scores[best] = 0 THEN fallbackCategoryAnalysis(p) ELSE best

\* model names, as character sequences (the override check matches prefixes)
Model ==
    [gpt_4o                  |-> <<"g", "p", "t", "-", "4", "o">>,
     gpt_4_5_preview         |-> <<"g", "p", "t", "-", "4", ".", "5", "-", "p", "r", "e", "v", "i", "e", "w">>,
     o3_mini                 |-> <<"o", "3", "-", "m", "i", "n", "i">>,
     claude_3_5_sonnet       |-> <<"c", "l", "a", "u", "d", "e", "-", "3", ".", "5", "-", "s", "o", "n", "n", "e", "t">>,
     gemini_2_0_flash_exp    |-> <<"g", "e", "m", "i", "n", "i", "-", "2", ".", "0", "-", "f", "l", "a", "s", "h", "-", "e", "x", "p">>,
     llama_3_3_70b_versatile |-> <<"l", "l", "a", "m", "a", "-", "3", ".", "3", "-", "7", "0", "b", "-", "v", "e", "r", "s", "a", "t", "i", "l", "e">>]

Providers == {"openai", "anthropic", "google", "groq"}

\* config.models.default (EnvLoader.parseModelConfig, no DEFAULT_* set)
defaultModel == [model |-> Model.gpt_4_5_preview, provider |-> "openai"]

\* config.routing.models (EnvLoader.parseRoutingConfig, no *_MODEL set);
\* a routing map is a function from the categories it has an entry for
EnvRoutingModels ==
    [c \in Categories |->
        CASE c = "coding"    -> [model |-> Model.claude_3_5_sonnet, provider |-> "anthropic"]
          [] c = "reasoning" -> [model |-> Model.o3_mini, provider |-> "openai"]
          [] c = "creative"  -> [model |-> Model.gpt_4_5_preview, provider |-> "openai"]
          [] c = "fast"      -> [model |-> Model.llama_3_3_70b_versatile, provider |-> "groq"]]

\* a confidence is the rational num/den, den > 0
Ratio(n, d) == [num |-> n, den |-> d]

getDefaultModel(reason) ==
    [model |-> defaultModel.model,
     provider |-> defaultModel.provider,
     category |-> "default",
     confidence |-> Ratio(1, 2),
     routingReason |-> reason,
     isDefault |-> TRUE,
     normalizedPrompt |-> None]

getModelForCategory_anyEntry(category, rm) ==
    LET c == IF category \in DOMAIN rm THEN category ELSE CHOOSE x \in DOMAIN rm : TRUE
    IN  [model |-> rm[c].model, provider |-> rm[c].provider, category |-> category,
         confidence |-> None, routingReason |-> None, isDefault |-> FALSE,
         normalizedPrompt |-> None]

getModelForCategory(category, rm) ==
    IF category \notin DOMAIN rm
    THEN getDefaultModel("No specific routing determined")
    ELSE [model |-> rm[category].model,
          provider |-> rm[category].provider,
          category |-> category,
          confidence |-> None,
          routingReason |-> None,
          isDefault |-> FALSE,
          normalizedPrompt |-> None]

\* the number of configured keywords of the category that the prompt includes
keywordHits(p, kws) == Cardinality({i \in 1..Len(kws) : includes(p, kws[i])})

clampConfidence_unclamped(num, den) == num

clampConfidence_noFloor(num, den) == Min(num, den)

\* Math.min(Math.max(confidence, 0.1), 1.0), in units of 1/den
clampConfidence(num, den) == Min(Max(num, den \div 10), den)

\* Math.max(keywords.length * 0.3, 1) is d/10 with d = Max(3 * length, 10);
\* the confidence is kept in units of 1/(10 * d), where 0.1 is d units
confidenceUnit(kws) == Max(3 * Len(kws), 10)

\* the confidence before the final clamp, in units of 1/(10 * d)
rawConfidence(p, kws) ==
    LET d == confidenceUnit(kws)
        base == Min(100 * keywordHits(p, kws), 10 * d)
        withLength == IF Len(p) > ConfidenceLongLength THEN base + d ELSE base
    IN  IF includes(p, <<"?">>) THEN withLength + d ELSE withLength

calculateConfidence(p, category, kw) ==
    LET den == 10 * confidenceUnit(kw[category])
    IN  Ratio(clampConfidence(rawConfidence(p, kw[category]), den), den)

getRoutingReason(category) ==
    CASE category = "coding" -> "Detected programming/development related content"
      [] category = "reasoning" -> "Identified analytical or problem-solving request"
      [] category = "creative" -> "Recognized creative writing or generation task"
      [] category = "fast" -> "Optimized for quick, simple responses"
      [] OTHER -> "Routed based on content analysis"

\* a prompt that is not a string (a number, an object, an array)
P_object == <<"[object Object]">>

\* new RegExp(`\\b${keyword}\\b`, 'gi') throws a SyntaxError (nothing to
\* repeat) for a keyword such as c++ or +1: a + or * at its start or right
\* after a + or *
RegExpThrows(keyword) ==
    \E i \in 1..Len(keyword) :
        /\ keyword[i] \in {"+", "*"}
        /\ (i = 1 \/ keyword[i - 1] \in {"+", "*"})

routePrompt_unguarded(prompt, kw, rm) ==
    IF prompt = <<>>
    THEN getDefaultModel("Invalid prompt: must be a non-empty string")
    ELSE LET normalizedPrompt == normalizePrompt(prompt)
             category == analyzePromptCategory(normalizedPrompt, kw)
             modelInfo == getModelForCategory(category, rm)
         IN  [modelInfo EXCEPT
                 !.category = category,
                 !.confidence = calculateConfidence(normalizedPrompt, category, kw),
                 !.normalizedPrompt = normalizedPrompt,
                 !.routingReason = getRoutingReason(category)]

\* routePrompt: everything thrown inside, by the prompt test or by the
\* keyword loop of analyzePromptCategory, is caught and answered with
\* getDefaultModel(error.message)
routePrompt(prompt, kw, rm) ==
    IF prompt = <<>> \/ prompt = P_object
    THEN getDefaultModel("Invalid prompt: must be a non-empty string")
    ELSE IF \E c \in Categories : \E i \in 1..Len(kw[c]) : RegExpThrows(kw[c][i])
    THEN getDefaultModel("Invalid regular expression: Nothing to repeat")
    ELSE LET normalizedPrompt == normalizePrompt(prompt)
             category == analyzePromptCategory(normalizedPrompt, kw)
             modelInfo == getModelForCategory(category, rm)
         IN  [modelInfo EXCEPT
                 !.category = category,
                 !.confidence = calculateConfidence(normalizedPrompt, category, kw),
                 !.normalizedPrompt = normalizedPrompt,
                 !.routingReason = getRoutingReason(category)]

(***************************************************************************)
(* ValidationHelpers and the request schema                                *)
(***************************************************************************)
\* an absent options.forceProvider / options.forceModel: both are falsy
NoProvider == ""

NoModel == <<>>

MaxPromptLength == 10000

\* the generation parameters of options.  A parameter is <<>> when it is
\* undefined and the one-element sequence of its value otherwise;
\* temperature and topP are counted in tenths
OptionKeys == {"maxTokens", "temperature", "topP", "topK"}

Unset == <<>>

\* min(...) and max(...) of chatRequestSchema, the same limits as the ones
\* validateOptions tests
OptionRange ==
    [maxTokens   |-> [min |-> 1, max |-> 4000],
     temperature |-> [min |-> 0, max |-> 20],
     topP        |-> [min |-> 0, max |-> 10],
     topK        |-> [min |-> 1, max |-> 100]]

\* default(...) of chatRequestSchema
inRange(k, v) ==
    v = Unset \/ (v[1] >= OptionRange[k].min /\ v[1] <= OptionRange[k].max)

\* schema.validate(req.body) of ErrorHandler.validateRequest with
\* chatRequestSchema reports no error
validateRequest(body) ==
    /\ Len(body.prompt) >= 1
    /\ Len(body.prompt) <= MaxPromptLength
    /\ body.forceProvider \in Providers \cup {NoProvider}
    /\ \A k \in OptionKeys : inRange(k, body.options[k])

\* the options of req.validatedData: the schema fills the defaults of the
\* parameters that an options object leaves out, and gives {} when the
\* body has no options object
validatedOptions(body) ==
    LET defaults == [maxTokens |-> <<1000>>, temperature |-> <<7>>,
                     topP |-> <<8>>, topK |-> <<10>>]
    IN  IF body.hasOptions
        THEN [k \in OptionKeys |->
                 IF body.options[k] = Unset THEN defaults[k] ELSE body.options[k]]
        ELSE body.options

\* /w1\s*w2\s*...wn/ matches s with w(k) starting at or after position i,
\* only whitespace before it
RECURSIVE SpacedFrom(_, _, _, _)
SpacedFrom(s, ws, k, i) ==
    IF k > Len(ws) THEN TRUE
    ELSE \E j \in i..(Len(s) + 1) :
            /\ \A m \in i..(j - 1) : IsSpace(s[m])
            /\ StartsAt(s, ws[k], j)
            /\ SpacedFrom(s, ws, k + 1, j + Len(ws[k]))

\* pattern.test(prompt) for a pattern /w1\s*w2.../i
testSpaced(s, ws) ==
    LET lower == toLowerCase(s)
    IN  \E i \in Occurrences(lower, ws[1]) :
            SpacedFrom(lower, ws, 2, i + Len(ws[1]))

harmfulPatterns ==
    {<< <<"s","y","s","t","e","m">>, <<"p","r","o","m","p","t">> >>,
     << Word.ignore, Word.previous, Word.instructions >>,
     << <<"j","a","i","l","b","r","e","a","k">> >>,
     << <<"o","v","e","r","r","i","d","e">>, <<"s","a","f","e","t","y">> >>}

validatePrompt_keepsBlank(prompt) ==
    IF prompt = <<>>
    THEN [isValid |-> FALSE, error |-> "Prompt must be a non-empty string",
          cleanPrompt |-> <<>>]
    ELSE [isValid |-> TRUE, error |-> None, cleanPrompt |-> trim(prompt)]

validatePrompt(prompt) ==
    IF prompt = <<>>
    THEN [isValid |-> FALSE, error |-> "Prompt must be a non-empty string",
          cleanPrompt |-> <<>>]
    ELSE IF Len(trim(prompt)) = 0
    THEN [isValid |-> FALSE, error |-> "Prompt cannot be empty or only whitespace",
          cleanPrompt |-> <<>>]
    ELSE IF Len(prompt) > MaxPromptLength
    THEN [isValid |-> FALSE, error |-> "Prompt cannot exceed 10,000 characters",
          cleanPrompt |-> <<>>]
    ELSE IF \E ws \in harmfulPatterns : testSpaced(prompt, ws)
    THEN [isValid |-> FALSE, error |-> "Prompt contains potentially harmful content",
          cleanPrompt |-> <<>>]
    ELSE [isValid |-> TRUE, error |-> None, cleanPrompt |-> trim(prompt)]

\* the prefixes of modelPatterns, each pattern is /^(p1|p2|...)/i
modelPatterns ==
    [p \in Providers |->
        CASE p = "openai"    -> {<<"g", "p", "t", "-">>, <<"o", "1", "-">>, <<"o", "3", "-">>}
          [] p = "anthropic" -> {<<"c", "l", "a", "u", "d", "e", "-">>}
          [] p = "google"    -> {<<"g", "e", "m", "i", "n", "i", "-">>}
          [] p = "groq"      -> {<<"l", "l", "a", "m", "a", "-">>, <<"m", "i", "x", "t", "r", "a", "l", "-">>}]

\* pattern.test(model)
testPattern(prefixes, model) ==
    \E pre \in prefixes : StartsAt(toLowerCase(model), pre, 1)

validateModelProvider(provider, model, prov) ==
    IF provider \notin Providers
    THEN [isValid |-> FALSE, error |-> "Invalid provider"]
    ELSE IF ~(provider \in DOMAIN prov /\ prov[provider].apiKey)
    THEN [isValid |-> FALSE, error |-> "Provider is not configured or missing API key"]
    ELSE IF ~testPattern(modelPatterns[provider], model)
    THEN [isValid |-> FALSE, error |-> "Invalid model for provider"]
    ELSE [isValid |-> TRUE, error |-> None]

\* each parameter that is not undefined is parsed, tested against its
\* limits and copied
validateOptions(options) ==
    IF \E k \in OptionKeys : ~inRange(k, options[k])
    THEN [isValid |-> FALSE, error |-> "must be a number between its limits",
          options |-> [k \in OptionKeys |-> Unset]]
    ELSE [isValid |-> TRUE, error |-> None,
          options |-> [k \in OptionKeys |-> options[k]]]

(***************************************************************************)
(* ErrorHandler                                                            *)
(***************************************************************************)
\* a property that a JavaScript error object does not have
Undefined == "undefined"

NoStatus == 0

\* an error object as the caller of the chat handler or of sendRequest sees
\* it: name is the constructor, type/status/provider/model its properties
ErrorObject(name, type, status, provider, model) ==
    [kind |-> "error", name |-> name, type |-> type, status |-> status,
     provider |-> provider, model |-> model, text |-> Undefined,
     usage |-> Undefined, retryAfter |-> Undefined]

createValidationError(message) ==
    ErrorObject("Error", "VALIDATION_ERROR", 400, Undefined, NoModel)

\* the status and the retryAfter of the body that handleError answers with
createErrorResponse(err) ==
    CASE err.type = "VALIDATION_ERROR"     -> [status |-> 400, retryAfter |-> <<>>]
      [] err.type = "AUTHENTICATION_ERROR" -> [status |-> 401, retryAfter |-> <<>>]
      [] err.type = "RATE_LIMIT_ERROR" ->
            [status |-> 429,
             retryAfter |-> IF err.retryAfter = Undefined THEN <<60>>
                            ELSE err.retryAfter]
      [] err.type = "MODEL_NOT_FOUND"      -> [status |-> 404, retryAfter |-> <<>>]
      [] err.type = "PROVIDER_UNAVAILABLE" -> [status |-> 503, retryAfter |-> <<>>]
      [] err.type = "TIMEOUT_ERROR"        -> [status |-> 408, retryAfter |-> <<>>]
      [] err.type = "CONFIG_ERROR"         -> [status |-> 500, retryAfter |-> <<>>]
      [] err.type = "API_ERROR" ->
            [status |-> IF err.status = NoStatus THEN 500 ELSE err.status,
             retryAfter |-> <<>>]
      [] OTHER                             -> [status |-> 500, retryAfter |-> <<>>]

(***************************************************************************)
(* APIHandlers                                                             *)
(***************************************************************************)
\* config && config.apiKey && config.baseUrl
isProviderAvailable(prov, provider) ==
    /\ provider \in DOMAIN prov
    /\ prov[provider].apiKey
    /\ prov[provider].baseUrl

\* ModelRouter.getRoutingStats over modelConfig.providers, routingConfig.models
\* and routingConfig.keywords
getRoutingStats(prov, rm, kw) ==
    [availableProviders   |-> {p \in DOMAIN prov : prov[p].apiKey},
     configuredCategories |-> DOMAIN rm,
     defaultModel         |-> defaultModel,
     totalKeywords        |-> Len(kw["coding"]) + Len(kw["reasoning"])
                                + Len(kw["creative"]) + Len(kw["fast"])]

getAvailableProviders_keyOnly(prov) == {p \in DOMAIN prov : prov[p].apiKey}

\* Object.keys(this.providers).filter(provider => this.isProviderAvailable(provider))
getAvailableProviders(prov) == {p \in DOMAIN prov : isProviderAvailable(prov, p)}

\* what the HTTP client of a handler ends with:
\*   ok       2xx, data is the parsed body
\*   http     a non-2xx status, the client rejects with error.response
\*   timeout  no response, error.code = 'ECONNABORTED'
\*   network  no response, the connection was refused (ECONNREFUSED)
\*   dns      no response, the host name did not resolve (ENOTFOUND)
\* retryAfter is the Retry-After header of an HTTP error response: <<>> when
\* the response has none, else the one-element sequence of its seconds.
\* A success body is JSON null or an object; list is its choices / content /
\* candidates array, text the text of the first element, usage its usage
\* object.  An error body is JSON null, a string, or an object with
\* error.message, with message, or with neither.
SuccessBodies ==
    {[json |-> "null", list |-> "absent", text |-> "absent", usage |-> "absent"]}
    \cup
    {b \in [json : {"object"}, list : {"absent", "empty", "one"},
            text : {"absent", "empty", "string"}, usage : {"absent", "present"}] :
        b.list # "one" => b.text = "absent"}

ErrorBodies == {"null", "string", "errorObject", "messageObject", "emptyObject"}

NoHeader == <<>>

Replies ==
    {[kind |-> "ok", status |-> 200, data |-> b, retryAfter |-> NoHeader] :
        b \in SuccessBodies}
    \cup
    {[kind |-> "http", status |-> s, data |-> b, retryAfter |-> NoHeader] :
        s \in {400, 401, 404, 429, 500}, b \in ErrorBodies}
    \cup
    {[kind |-> "http", status |-> 429, data |-> b, retryAfter |-> <<30>>] :
        b \in ErrorBodies}
    \cup
    {[kind |-> k, status |-> NoStatus, data |-> "none", retryAfter |-> NoHeader] :
        k \in {"timeout", "network", "dns"}}

\* the token counts of a usage object that is present
PromptTokens == 7

CompletionTokens == 5

StandardResponse(provider, model, text, usage) ==
    [kind |-> "response", name |-> Undefined, type |-> Undefined,
     status |-> 200, provider |-> provider, model |-> model,
     text |-> text, usage |-> usage, retryAfter |-> Undefined]

\* data.usage?.x || 0 for the three counters
usageOf(data) ==
    IF data.usage = "present"
    THEN [promptTokens |-> PromptTokens, completionTokens |-> CompletionTokens,
          totalTokens |-> PromptTokens + CompletionTokens]
    ELSE [promptTokens |-> 0, completionTokens |-> 0, totalTokens |-> 0]

\* first?.…text || ''
textOf(data) == IF data.text = "string" THEN "text" ELSE ""

\* a TypeError thrown while a body is read
TypeError == ErrorObject("TypeError", Undefined, NoStatus, Undefined, NoModel)

\* data.choices[0]: throws when data is null or has no choices array
formatOpenAIResponse(data, model) ==
    IF data.json = "null" \/ data.list = "absent"
    THEN TypeError
    ELSE StandardResponse("openai", model, textOf(data), usageOf(data))

\* data.content[0]: throws when data is null or has no content array
formatAnthropicResponse(data, model) ==
    IF data.json = "null" \/ data.list = "absent"
    THEN TypeError
    ELSE StandardResponse("anthropic", model, textOf(data), usageOf(data))

\* data.candidates?.[0]: throws only when data is null
formatGoogleResponse(data, model) ==
    IF data.json = "null"
    THEN TypeError
    ELSE StandardResponse("google", model, textOf(data), usageOf(data))

formatGroqResponse(data, model) ==
    IF data.json = "null" \/ data.list = "absent"
    THEN TypeError
    ELSE StandardResponse("groq", model, textOf(data), usageOf(data))

\* the type createStandardError gives an HTTP error response
typeOfStatus(status) ==
    IF status = 401 THEN "AUTHENTICATION_ERROR"
    ELSE IF status = 429 THEN "RATE_LIMIT_ERROR"
    ELSE IF status = 404 THEN "MODEL_NOT_FOUND"
    ELSE "API_ERROR"

\* error is what the try block of sendRequest threw:
\* [response |-> TRUE, status, data], or [response |-> FALSE, code]
createStandardError_etimedout(error, provider, model) ==
    IF error.response
    THEN IF error.data = "null"
         THEN TypeError
         ELSE ErrorObject("Error", typeOfStatus(error.status), error.status,
                          provider, model)
    ELSE IF error.code = "ETIMEDOUT"
    THEN ErrorObject("Error", "TIMEOUT_ERROR", NoStatus, provider, model)
    ELSE ErrorObject("Error", "NETWORK_ERROR", NoStatus, provider, model)

createStandardError(error, provider, model) ==
    IF error.response
    THEN IF error.data = "null"
         THEN TypeError      \* data.error?.message reads a property of null
         ELSE ErrorObject("Error", typeOfStatus(error.status), error.status,
                          provider, model)
    ELSE IF error.code = "ECONNABORTED"
    THEN ErrorObject("Error", "TIMEOUT_ERROR", NoStatus, provider, model)
    ELSE ErrorObject("Error", "NETWORK_ERROR", NoStatus, provider, model)

\* options.x || d
orDefault(v, d) == IF v = Unset \/ v = <<0>> THEN <<d>> ELSE v

\* the generation parameters of requestData: handleGoogle sends the four of
\* them, handleOpenAI, handleAnthropic and handleGroq max_tokens and
\* temperature only
requestParams(provider, options) ==
    [maxTokens   |-> orDefault(options.maxTokens, 1000),
     temperature |-> orDefault(options.temperature, 7),
     topP        |-> IF provider = "google" THEN orDefault(options.topP, 8) ELSE Unset,
     topK        |-> IF provider = "google" THEN orDefault(options.topK, 10) ELSE Unset]

\* a plain Error or TypeError thrown inside the try block: no response, no code
ThrownError == [response |-> FALSE, status |-> NoStatus, data |-> "none", code |-> Undefined]

\* the error the HTTP client rejects with
ClientError(r) ==
    [response |-> r.kind = "http", status |-> r.status,
     data |-> IF r.kind = "http" THEN r.data ELSE "none",
     code |-> CASE r.kind = "timeout" -> "ECONNABORTED"
                [] r.kind = "network" -> "ECONNREFUSED"
                [] r.kind = "dns"     -> "ENOTFOUND"
                [] OTHER              -> Undefined]

\* handleOpenAI / handleAnthropic / handleGoogle / handleGroq after the
\* await of httpClient.post, inside the try block of sendRequest
formatResponse(provider, data, model) ==
    CASE provider = "openai"    -> formatOpenAIResponse(data, model)
      [] provider = "anthropic" -> formatAnthropicResponse(data, model)
      [] provider = "google"    -> formatGoogleResponse(data, model)
      [] provider = "groq"      -> formatGroqResponse(data, model)

\* what sendRequest returns or throws once the client has ended with r
sendRequestResult(r, provider, model) ==
    IF r.kind = "ok"
    THEN LET res == formatResponse(provider, r.data, model)
         IN  IF res.kind = "response" THEN res
             ELSE createStandardError(ThrownError, provider, model)
    ELSE createStandardError(ClientError(r), provider, model)

\* getDefaultModelForProvider, for the four providers
getDefaultModelForProvider(provider) ==
    CASE provider = "openai"    -> Model.gpt_4o
      [] provider = "anthropic" -> Model.claude_3_5_sonnet
      [] provider = "google"    -> Model.gemini_2_0_flash_exp
      [] provider = "groq"      -> Model.llama_3_3_70b_versatile

\* a probe of the health check: settled is none (no probe), pending,
\* fulfilled or rejected, the rest is the value of a fulfilled probe
NoProbes ==
    [p \in Providers |->
        [settled |-> "none", provider |-> p, status |-> Undefined,
         type |-> Undefined, model |-> NoModel]]

testProvider_rethrows(provider, prov, r) ==
    LET model == getDefaultModelForProvider(provider)
        res   == sendRequestResult(r, provider, model)
    IN  IF isProviderAvailable(prov, provider) /\ res.kind = "response"
        THEN [settled |-> "fulfilled", provider |-> provider, status |-> "available",
              type |-> Undefined, model |-> model]
        ELSE [NoProbes[provider] EXCEPT !.settled = "rejected"]

\* testProvider(provider) once the HTTP client has ended with r: everything
\* thrown inside is caught; type is error.type || 'UNKNOWN_ERROR'
testProvider(provider, prov, r) ==
    LET model == getDefaultModelForProvider(provider)
        res   == sendRequestResult(r, provider, model)
    IN  IF ~isProviderAvailable(prov, provider)
        THEN [settled |-> "fulfilled", provider |-> provider, status |-> "unavailable",
              type |-> "UNKNOWN_ERROR", model |-> NoModel]
        ELSE IF res.kind = "response"
        THEN [settled |-> "fulfilled", provider |-> provider, status |-> "available",
              type |-> Undefined, model |-> model]
        ELSE [settled |-> "fulfilled", provider |-> provider, status |-> "unavailable",
              type |-> IF res.type = Undefined THEN "UNKNOWN_ERROR" ELSE res.type,
              model |-> NoModel]

NoHealth ==
    [status |-> "none", availableProviders |-> 0, totalProviders |-> 0, providers |-> {}]

\* getHealthStatus after Promise.allSettled: { provider, ...result.value } for
\* every probe (value is undefined for a rejected one), and the counts
getHealthStatus(settledProbes) ==
    LET probed  == {p \in Providers : settledProbes[p].settled # "none"}
        value(p) == IF settledProbes[p].settled = "fulfilled"
                    THEN settledProbes[p] ELSE NoProbes[p]
        results == {[provider |-> p, status |-> value(p).status,
                     type |-> value(p).type, model |-> value(p).model] : p \in probed}
        availableCount == Cardinality({x \in results : x.status = "available"})
    IN  [status |-> IF availableCount > 0 THEN "healthy" ELSE "unhealthy",
         availableProviders |-> availableCount,
         totalProviders |-> Cardinality(probed),
         providers |-> results]

(***************************************************************************)
(* The chat page (LLMPlayground).  Conversations have the ids 1, 2, ... in  *)
(* the order of their creation; a message is a role and a content, the     *)
(* content of the user message of the n-th prompt is <<"prompt", n>> and    *)
(* the one of its answer <<"reply", n>> or <<"error", n>>.  origin[n] is    *)
(* the conversation that was current when the n-th prompt was submitted,   *)
(* and answered the number of prompts whose answer was added.              *)
(***************************************************************************)
\* the conversations of the chat page and the prompts a user submits
MaxConversations == 3

MaxPrompts == 2

\* the page after the constructor: createNewConversation() made the first
\* conversation and switched to it
NewPlayground ==
    [conversations |-> [i \in 1..MaxConversations |-> <<>>],
     count |-> 1,
     currentConversationId |-> 1,
     conversationHistory |-> <<>>,
     isGenerating |-> FALSE,
     submitted |-> 0,
     origin |-> <<>>,
     answered |-> 0]

\* conversation.messages = [...this.conversationHistory]
saveCurrentConversation(u) ==
    [u EXCEPT !.conversations[u.currentConversationId] = u.conversationHistory]

\* this.conversationHistory = conversation.messages, after the current
\* conversation was saved
switchToConversation(u, conversationId) ==
    LET saved == saveCurrentConversation(u)
    IN  [saved EXCEPT !.currentConversationId = conversationId,
                      !.conversationHistory = saved.conversations[conversationId]]

\* this.conversationHistory.push(message), then saveCurrentConversation()
addMessage(u, role, content) ==
    saveCurrentConversation(
        [u EXCEPT !.conversationHistory = Append(@, [role |-> role, content |-> content])])

(***************************************************************************)
(* Inputs                                                                  *)
(***************************************************************************)
\* the number of words of a generated prompt
MaxWords == 3

\* filler words: one makes a prompt of 50..100 characters, the other one of
\* more than 100, both together one of more than 200
PadShortLen == 60

\* the number of routePrompt calls of a logged sequence
MaxCalls == 3

\* config.security.rateLimitMax, scaled down
RateLimitMax == 2

PadLongLen == 150

PadShort == <<>> \o [i \in 1..PadShortLen |-> "z"]

Vocabulary ==
    {Word.fix, Word.how, Word.explain, Word.story, Word.quick, <<"?">>,
     PadShort, <<>> \o [i \in 1..PadLongLen |-> "y"]}

RECURSIVE JoinFrom(_, _)
JoinFrom(ws, i) ==
    IF i > Len(ws) THEN <<>>
    ELSE IF i = Len(ws) THEN ws[i]
    ELSE ws[i] \o <<" ">> \o JoinFrom(ws, i + 1)

\* the words, separated by one space
Join(ws) == JoinFrom(ws, 1)

\* the prompts of the router's test script
P_explain_quantum_physics == <<"E", "x", "p", "l", "a", "i", "n", " ", "q", "u", "a", "n", "t", "u", "m", " ", "p", "h", "y", "s", "i", "c", "s">>

P_hi == <<"H", "i">>

P_write_function == <<"W", "r", "i", "t", "e", " ", "a", " ", "f", "u", "n", "c", "t", "i", "o", "n", " ", "t", "o", " ", "s", "o", "r", "t", " ", "a", "n", " ", "a", "r", "r", "a", "y">>

testPrompts ==
    {P_write_function, P_explain_quantum_physics, <<"W", "r", "i", "t", "e", " ", "a", " ", "c", "r", "e", "a", "t", "i", "v", "e", " ", "s", "t", "o", "r", "y", " ", "a", "b", "o", "u", "t", " ", "d", "r", "a", "g", "o", "n", "s">>, P_hi}

P_blank == <<" ", "\t", " ">>

\* trigger words inside longer words, and punctuation at the ends
\* "Show prefix", "What is Rust?", "(quick) tip?"
punctuationPrompts ==
    {<<"S", "h", "o", "w", " ", "p", "r", "e", "f", "i", "x">>,
     <<"W", "h", "a", "t", " ", "i", "s", " ", "R", "u", "s", "t", "?">>,
     <<"(", "q", "u", "i", "c", "k", ")", " ", "t", "i", "p", "?">>}

Prompts ==
    {Join(ws) : ws \in UNION {[1..n -> Vocabulary] : n \in 0..MaxWords}}
    \cup testPrompts \cup punctuationPrompts \cup {P_blank}

IsBlank(prompt) == \A i \in 1..Len(prompt) : IsSpace(prompt[i])

\* keyword lists as EnvLoader.parseKeywords produces them: lower case, trimmed
FewKeywords ==
    [c \in Categories |->
        CASE c = "coding"    -> <<Word.code, Word.debug, Word.fix>>
          [] c = "reasoning" -> <<Word.explain, Word.analyze, Word.why>>
          [] c = "creative"  -> <<Word.story, Word.poem>>
          [] c = "fast"      -> <<Word.quick>>]

ManyKeywords ==
    [c \in Categories |->
        CASE c = "coding"    -> <<Word.code, Word.debug, Word.fix, Word.bug, Word.function>>
          [] c = "reasoning" -> <<Word.explain, Word.analyze, Word.why, Word.how>>
          [] c = "creative"  -> <<Word.story, Word.poem, Word.write, Word.create>>
          [] c = "fast"      -> <<Word.quick, Word.brief, Word.short, Word.fix>>]

KeywordConfigs == {[c \in Categories |-> <<>>], FewKeywords, ManyKeywords}

\* routing maps: the one of the environment defaults, and one without an
\* entry for the coding and the creative category (the coding entry differs
\* from the default target, the creative entry equals it)
RoutingModelConfigs ==
    {EnvRoutingModels,
     [c \in Categories \ {"coding", "creative"} |-> EnvRoutingModels[c]]}

\* config.models.providers: per provider, whether apiKey and baseUrl are set
ProviderConfigs == [Providers -> [apiKey : BOOLEAN, baseUrl : BOOLEAN]]

AllConfigured == [p \in Providers |-> [apiKey |-> TRUE, baseUrl |-> TRUE]]

\* the requests of the chat endpoint
ChatPrompts ==
    {<<>>, P_blank, P_hi, P_explain_quantum_physics,
     \* a long prompt in which coding and reasoning tie
     Join(<<PadShort, Word.fix, Word.how>>),
     \* "ignore  previous instructions", a pattern validatePrompt rejects
     Join(<<Word.ignore, <<>>, Word.previous, Word.instructions>>)}

ForceModels ==
    {NoModel, Model.gpt_4o, Model.claude_3_5_sonnet, Model.gemini_2_0_flash_exp,
     Model.llama_3_3_70b_versatile,
     \* "GPT-4o" and "text-davinci"
     <<"G", "P", "T", "-", "4", "o">>,
     <<"t", "e", "x", "t", "-", "d", "a", "v", "i", "n", "c", "i">>}

(***************************************************************************)
(* State machine                                                           *)
(*   keywords, routingModels, providers : the configuration, read-only     *)
(*   pc         : idle | routed (a direct routePrompt call returned)       *)
(*                | awaiting (sendRequest suspended in httpClient.post)    *)
(*                | done (the chat handler finished)                       *)
(*                | listed (a getAvailableProviders call returned)         *)
(*                | stats (a getRoutingStats call returned)                *)
(*                | probing (a health check waits for its probes)          *)
(*                | health (a getHealthStatus call returned)               *)
(*   req        : the request being served                                 *)
(*   routingResult : the routing result of the request                     *)
(*   outcome    : what the caller gets: a response or an error             *)
(*   reply      : what the HTTP client ended with                          *)
(*   netCalls   : the httpClient.post calls made for the request           *)
(*   routeCalls : the routePrompt calls made for the request               *)
(*   sent       : the provider, model and parameters of the HTTP request   *)
(*   available  : what the last getAvailableProviders call returned        *)
(*   toggled    : the providers whose configuration was changed since the  *)
(*                services were constructed                                *)
(*   ui         : the chat page: conversations, current one, request in flight *)
(*   seen       : the log of the classifications, each with its prompt     *)
(*   hits       : the /api/ requests that arrived in the rate-limit window *)
(*   health     : what the last getHealthStatus call returned              *)
(*   probes     : the probe of each provider in a health check             *)
(*   stats      : availableProviders of the last getRoutingStats call      *)
(***************************************************************************)
NoOptions == [k \in OptionKeys |-> Unset]

NoRequest ==
    [prompt |-> <<>>, forceProvider |-> NoProvider, forceModel |-> NoModel,
     hasOptions |-> FALSE, options |-> NoOptions, via |-> None]

NoRouting ==
    [model |-> NoModel, provider |-> NoProvider, category |-> None,
     confidence |-> None, routingReason |-> None, isDefault |-> FALSE,
     normalizedPrompt |-> None]

NoOutcome ==
    [kind |-> "none", name |-> Undefined, type |-> Undefined, status |-> NoStatus,
     provider |-> Undefined, model |-> NoModel, text |-> Undefined,
     usage |-> Undefined, retryAfter |-> Undefined]

NoReply ==
    [kind |-> "none", status |-> NoStatus, data |-> "none", retryAfter |-> NoHeader]

NothingSent == [provider |-> NoProvider, model |-> NoModel, params |-> NoOptions]

\* no getAvailableProviders result at hand
NoList == {None}

Quiet ==
    /\ pc = "idle"
    /\ req = NoRequest
    /\ routingResult = NoRouting
    /\ outcome = NoOutcome
    /\ reply = NoReply
    /\ netCalls = 0
    /\ routeCalls = 0
    /\ sent = NothingSent
    /\ available = NoList
    /\ toggled = {}
    /\ stats = NoList
    /\ probes = NoProbes
    /\ health = NoHealth
    /\ hits = 0
    /\ seen = <<>>
    /\ ui = NewPlayground

\* the routing result of a forced provider/model (chat.js)
forcedRouting(provider, model) ==
    [model |-> model, provider |-> provider, category |-> "forced",
     confidence |-> Ratio(1, 1), routingReason |-> "Forced by user request",
     isDefault |-> FALSE, normalizedPrompt |-> None]

isForced_never(body) == FALSE

\* options.forceProvider && options.forceModel
isForced(body) == body.forceProvider # NoProvider /\ body.forceModel # NoModel

\* the request ends with an error before sendRequest is called
Reject(err) ==
    /\ pc' = "done"
    /\ outcome' = err
    /\ routingResult' = NoRouting
    /\ routeCalls' = 0
    /\ netCalls' = 0
    /\ sent' = NothingSent

\* sendRequest(routingResult, ...) up to its await: it throws at once when
\* the provider is not available or not one of the four, and otherwise the
\* handler of the provider posts the HTTP request
sendRequest(rr, options, calls) ==
    /\ routingResult' = rr
    /\ routeCalls' = calls
    /\ IF isProviderAvailable(providers, rr.provider) /\ rr.provider \in Providers
       THEN /\ pc' = "awaiting"
            /\ outcome' = NoOutcome
            /\ netCalls' = netCalls + 1
            /\ sent' = [provider |-> rr.provider, model |-> rr.model,
                        params |-> requestParams(rr.provider, options)]
       ELSE /\ pc' = "done"
            /\ outcome' = createStandardError(ThrownError, rr.provider, rr.model)
            /\ netCalls' = netCalls
            /\ sent' = NothingSent

\* the chat handler from its validateOptions call on: the routing result
\* is there, the options are validated and the request is sent
validateAndSend(rr, options, calls) ==
    IF ~validateOptions(options).isValid
    THEN /\ pc' = "done"
         /\ outcome' = createValidationError(validateOptions(options).error)
         /\ routingResult' = rr
         /\ routeCalls' = calls
         /\ netCalls' = 0
         /\ sent' = NothingSent
    ELSE sendRequest(rr, validateOptions(options).options, calls)

\* POST /api/chat, from the request validation middleware to the await of
\* the provider call, for a body with a prompt of P, overrides of FP and FM
\* and options of O (pairs: is there an options object, its parameters)
HandleChatOf(P, FP, FM, O) ==
    /\ pc = "idle"
    /\ \E p \in P, fp \in FP, fm \in FM, o \in O :
          LET body == [prompt |-> p, forceProvider |-> fp, forceModel |-> fm,
                       hasOptions |-> o[1], options |-> o[2], via |-> "chat"]
              options == validatedOptions(body)
          IN  /\ req' = body
              /\ IF ~validateRequest(body)
                 THEN Reject(createValidationError("Request validation failed"))
                 ELSE IF ~validatePrompt(p).isValid
                 THEN Reject(createValidationError(validatePrompt(p).error))
                 ELSE IF isForced(body)
                 THEN IF ~validateModelProvider(fp, fm, providers).isValid
                      THEN Reject(createValidationError(
                                      validateModelProvider(fp, fm, providers).error))
                      ELSE validateAndSend(forcedRouting(fp, fm), options, 0)
                 ELSE validateAndSend(routePrompt(p, keywords, routingModels),
                                      options, 1)
    /\ UNCHANGED <<keywords, routingModels, providers, reply, available, toggled,
                   stats, probes, health, seen, ui>>

\* a body without options object
WithoutOptions == {<<FALSE, NoOptions>>}

HandleChat ==
    /\ HandleChatOf(ChatPrompts, Providers \cup {NoProvider, "mistral"}, ForceModels,
                    WithoutOptions)
    /\ UNCHANGED hits

\* bodies with generation parameters: absent, at the limits of their ranges,
\* inside them, and one temperature above its limit
OptionInputs ==
    [maxTokens   : {Unset, <<1>>, <<4000>>},
     temperature : {Unset, <<0>>, <<7>>, <<20>>, <<21>>},
     topP        : {Unset, <<0>>, <<10>>},
     topK        : {Unset, <<1>>, <<100>>}]

HandleChatOptions ==
    /\ HandleChatOf({P_hi}, Providers \cup {NoProvider},
                    {NoModel, Model.gpt_4o, Model.claude_3_5_sonnet,
                     Model.gemini_2_0_flash_exp, Model.llama_3_3_70b_versatile},
                    WithoutOptions \cup {<<TRUE, o>> : o \in OptionInputs})
    /\ UNCHANGED hits

\* a request to /api/chat that is counted in the rate-limit window: the
\* limiter of setupMiddleware is commented out, so the request goes from the
\* CORS middleware to the body parser and on to the chat handler
ApiRequest ==
    /\ hits <= RateLimitMax
    /\ hits' = hits + 1
    /\ HandleChatOf({P_hi, P_blank}, {NoProvider}, {NoModel}, WithoutOptions)

\* a request to a route that no handler matches: handle404 makes the error
\* and passes it to handleError, which answers with createErrorResponse
handle404 ==
    /\ pc = "idle"
    /\ req' = [NoRequest EXCEPT !.via = "unmatched"]
    /\ outcome' = ErrorObject("Error", "NOT_FOUND", 404, Undefined, NoModel)
    /\ pc' = "done"
    /\ UNCHANGED <<keywords, routingModels, providers, routingResult, reply, netCalls,
                   routeCalls, sent, available, toggled, stats, probes, health, hits,
                   seen, ui>>

\* the rate-limit window (config.security.rateLimitWindow) ends
WindowEnds ==
    /\ hits > 0
    /\ hits' = 0
    /\ UNCHANGED <<keywords, routingModels, providers, pc, req, routingResult, outcome,
                   reply, netCalls, routeCalls, sent, available, toggled, stats,
                   probes, health, seen, ui>>

ProviderReply_retry ==
    /\ pc = "awaiting"
    /\ \E r \in Replies :
          /\ reply' = r
          /\ outcome' = sendRequestResult(r, sent.provider, sent.model)
          /\ IF r.kind # "ok" /\ netCalls < 2
             THEN pc' = "awaiting" /\ netCalls' = netCalls + 1
             ELSE pc' = "done" /\ netCalls' = netCalls
    /\ UNCHANGED <<keywords, routingModels, providers, req, routingResult,
                   routeCalls, sent, available, toggled, stats, probes, health, hits, seen, ui>>

\* the HTTP client ends; sendRequest returns or throws and the chat handler
\* answers
ProviderReply ==
    /\ pc = "awaiting"
    /\ \E r \in Replies :
          /\ reply' = r
          /\ outcome' = sendRequestResult(r, sent.provider, sent.model)
    /\ pc' = "done"
    /\ UNCHANGED <<keywords, routingModels, providers, req, routingResult,
                   netCalls, routeCalls, sent, available, toggled, stats, probes, health, hits, seen, ui>>

RoutePromptOf_sticky(P) ==
    /\ pc = "idle"
    /\ \E p \in P :
          /\ req' = [prompt |-> p, forceProvider |-> NoProvider,
                     forceModel |-> NoModel, hasOptions |-> FALSE,
                     options |-> NoOptions, via |-> "router"]
          /\ routingResult' = routePrompt(p, IF seen = <<>> THEN keywords
                                             ELSE [c \in Categories |-> <<>>],
                                          routingModels)
    /\ pc' = "routed"
    /\ routeCalls' = routeCalls + 1
    /\ UNCHANGED <<keywords, routingModels, providers, outcome, reply,
                   netCalls, sent, available, toggled, stats, probes, health, hits, ui>>

\* a direct call modelRouter.routePrompt(prompt) with a prompt of P
RoutePromptOf(P) ==
    /\ pc = "idle"
    /\ \E p \in P :
          /\ req' = [prompt |-> p, forceProvider |-> NoProvider,
                     forceModel |-> NoModel, hasOptions |-> FALSE,
                     options |-> NoOptions, via |-> "router"]
          /\ routingResult' = routePrompt(p, keywords, routingModels)
    /\ pc' = "routed"
    /\ routeCalls' = routeCalls + 1
    /\ UNCHANGED <<keywords, routingModels, providers, outcome, reply,
                   netCalls, sent, available, toggled, stats, probes, health, hits, ui>>

RoutePromptCall == RoutePromptOf(Prompts) /\ UNCHANGED seen

RouteChatPrompt == RoutePromptOf(ChatPrompts) /\ UNCHANGED seen

\* a direct call of routePrompt with any argument: a generated prompt, the
\* empty string or a value that is not a string
RouteAnything == RoutePromptOf(Prompts \cup {<<>>, P_object}) /\ UNCHANGED seen

\* a call of routePrompt in a sequence of calls whose results are kept:
\* category, reason and confidence of every result, with the prompt
Classify ==
    /\ Len(seen) < MaxCalls
    /\ RoutePromptOf(testPrompts \cup punctuationPrompts)
    /\ seen' = Append(seen, <<req'.prompt, routingResult'.category,
                              routingResult'.routingReason, routingResult'.confidence>>)

\* the request is over: nothing of it is kept
\* the caller changes config.models.providers[p], the object that
\* APIHandlers keeps as this.providers: it sets or clears apiKey or baseUrl
ToggleProvider ==
    /\ pc \in {"idle", "listed", "stats"}
    /\ \E p \in Providers, f \in {"apiKey", "baseUrl"} :
          providers' = [providers EXCEPT ![p][f] = ~@] /\ toggled' = toggled \cup {p}
    /\ pc' = "idle"
    /\ UNCHANGED <<keywords, routingModels, req, routingResult, outcome, reply,
                   netCalls, routeCalls, sent, available, stats, probes, health, hits, seen, ui>>

\* a call apiHandlers.getAvailableProviders()
ListProviders ==
    /\ pc \in {"idle", "listed", "stats"}
    /\ available' = getAvailableProviders(providers)
    /\ pc' = "listed"
    /\ UNCHANGED <<keywords, routingModels, providers, req, routingResult, outcome,
                   reply, netCalls, routeCalls, sent, toggled, stats, probes, health, hits, seen, ui>>

\* a call modelRouter.getRoutingStats(); the state keeps the provider list
GetRoutingStats ==
    /\ pc \in {"idle", "listed", "stats"}
    /\ stats' = getRoutingStats(providers, routingModels, keywords).availableProviders
    /\ pc' = "stats"
    /\ UNCHANGED <<keywords, routingModels, providers, req, routingResult, outcome,
                   reply, netCalls, routeCalls, sent, available, toggled, probes, health, hits, seen, ui>>

\* getHealthStatus up to its await: providers.map starts the probe of every
\* available provider, and each probe posts its request before it awaits
StartHealth ==
    /\ pc = "idle"
    /\ probes' = [p \in Providers |->
                     IF p \in getAvailableProviders(providers)
                     THEN [NoProbes[p] EXCEPT !.settled = "pending"]
                     ELSE NoProbes[p]]
    /\ pc' = "probing"
    /\ UNCHANGED <<keywords, routingModels, providers, req, routingResult, outcome,
                   reply, netCalls, routeCalls, sent, available, toggled, stats,
                   health, hits, seen, ui>>

\* the HTTP client of one pending probe ends, in any order
ProbeSettles ==
    /\ pc = "probing"
    /\ \E p \in Providers, r \in Replies :
          /\ probes[p].settled = "pending"
          /\ probes' = [probes EXCEPT ![p] = testProvider(p, providers, r)]
    /\ UNCHANGED <<keywords, routingModels, providers, pc, req, routingResult, outcome,
                   reply, netCalls, routeCalls, sent, available, toggled, stats,
                   health, hits, seen, ui>>

\* Promise.allSettled resolves when no probe is pending; getHealthStatus
\* returns
HealthJoin ==
    /\ pc = "probing"
    /\ \A p \in Providers : probes[p].settled # "pending"
    /\ health' = getHealthStatus(probes)
    /\ pc' = "health"
    /\ UNCHANGED <<keywords, routingModels, providers, req, routingResult, outcome,
                   reply, netCalls, routeCalls, sent, available, toggled, stats,
                   probes, hits, seen, ui>>

\* handleSubmit up to its await: the user message is added, the request is
\* sent
handleSubmit ==
    /\ ~ui.isGenerating
    /\ ui.submitted < MaxPrompts
    /\ ui' = [addMessage(ui, "user", <<"prompt", ui.submitted + 1>>) EXCEPT
                 !.isGenerating = TRUE,
                 !.submitted = @ + 1,
                 !.origin = Append(@, ui.currentConversationId)]
    /\ UNCHANGED <<keywords, routingModels, providers, pc, req, routingResult, outcome,
                   reply, netCalls, routeCalls, sent, available, toggled, stats,
                   probes, health, hits, seen>>

\* a click on the new-chat button
createNewConversation ==
    /\ ui.count < MaxConversations
    /\ ui' = switchToConversation([ui EXCEPT !.count = @ + 1], ui.count + 1)
    /\ UNCHANGED <<keywords, routingModels, providers, pc, req, routingResult, outcome,
                   reply, netCalls, routeCalls, sent, available, toggled, stats,
                   probes, health, hits, seen>>

\* a click on a conversation of the list
ClickConversation ==
    /\ \E conversationId \in 1..ui.count :
          ui' = switchToConversation(ui, conversationId)
    /\ UNCHANGED <<keywords, routingModels, providers, pc, req, routingResult, outcome,
                   reply, netCalls, routeCalls, sent, available, toggled, stats,
                   probes, health, hits, seen>>

\* generateResponse after its await, and the rest of handleSubmit: the
\* answer of the backend or the error message is added
generateResponse ==
    /\ ui.isGenerating
    /\ \E kind \in {"reply", "error"} :
          ui' = [addMessage(ui, "assistant", <<kind, ui.submitted>>) EXCEPT
                    !.isGenerating = FALSE,
                    !.answered = ui.submitted]
    /\ UNCHANGED <<keywords, routingModels, providers, pc, req, routingResult, outcome,
                   reply, netCalls, routeCalls, sent, available, toggled, stats,
                   probes, health, hits, seen>>

Return ==
    /\ pc \in {"routed", "done", "listed", "stats", "health"}
    /\ pc' = "idle"
    /\ req' = NoRequest
    /\ routingResult' = NoRouting
    /\ outcome' = NoOutcome
    /\ reply' = NoReply
    /\ netCalls' = 0
    /\ routeCalls' = 0
    /\ sent' = NothingSent
    /\ available' = NoList
    /\ stats' = NoList
    /\ probes' = NoProbes
    /\ health' = NoHealth
    /\ UNCHANGED <<keywords, routingModels, providers, toggled, hits, seen, ui>>

\* the service: the chat endpoint over every provider configuration
Init ==
    /\ keywords = FewKeywords
    /\ routingModels = EnvRoutingModels
    /\ providers \in ProviderConfigs
    /\ Quiet

Next == HandleChat \/ ProviderReply \/ RouteChatPrompt \/ Return

Spec == Init /\ [][Next]_vars

\* the service with every provider configured, over every keyword and routing
\* configuration and the generated prompts
InitRouter ==
    /\ keywords \in KeywordConfigs
    /\ routingModels \in RoutingModelConfigs
    /\ providers = AllConfigured
    /\ Quiet

NextRouter == RoutePromptCall \/ HandleChat \/ ProviderReply \/ Return

SpecRouter == InitRouter /\ [][NextRouter]_vars

\* the chat endpoint with every provider configured, over the generation
\* parameters of the request
InitOptions ==
    /\ keywords = FewKeywords
    /\ routingModels = EnvRoutingModels
    /\ providers = AllConfigured
    /\ Quiet

NextOptions == HandleChatOptions \/ ProviderReply \/ Return

SpecOptions == InitOptions /\ [][NextOptions]_vars

\* the provider list of the handlers while the caller changes the
\* configuration of the providers
InitProviders ==
    /\ keywords = FewKeywords
    /\ routingModels = EnvRoutingModels
    /\ providers \in ProviderConfigs
    /\ Quiet

NextProviders == ToggleProvider \/ ListProviders \/ GetRoutingStats \/ Return

SpecProviders == InitProviders /\ [][NextProviders]_vars

\* the server under a stream of requests, to the chat endpoint and to
\* routes that do not exist, within and across rate-limit windows
NextRateLimit == ApiRequest \/ handle404 \/ ProviderReply \/ Return \/ WindowEnds

SpecRateLimit == InitOptions /\ [][NextRateLimit]_vars

\* the router called again and again, over every keyword and routing
\* configuration
NextRepeat == Classify \/ Return

SpecRepeat == InitRouter /\ [][NextRepeat]_vars

\* the chat page under every order of submissions, answers and clicks
NextPlayground ==
    handleSubmit \/ createNewConversation \/ ClickConversation \/ generateResponse

SpecPlayground == InitOptions /\ [][NextPlayground]_vars

\* the router over every argument and over keyword lists that include one
\* that is no valid regular expression
InitFaults ==
    /\ keywords \in KeywordConfigs
                   \* CODING_KEYWORDS=code,c++
                   \cup {[FewKeywords EXCEPT !["coding"] = <<Word.code, <<"c", "+", "+">>>>]}
    /\ routingModels \in RoutingModelConfigs
    /\ providers = AllConfigured
    /\ Quiet

NextFaults == RouteAnything \/ Return

SpecFaults == InitFaults /\ [][NextFaults]_vars

\* the health check over every provider configuration
NextHealth == StartHealth \/ ProbeSettles \/ HealthJoin \/ Return

SpecHealth == Init /\ [][NextHealth]_vars

(***************************************************************************)
(* Properties                                                              *)
(***************************************************************************)
\* the scores of the prompt of the request
reqScores == finalScores(normalizePrompt(req.prompt), keywords)

maxScore(scores) == CHOOSE m \in Range([i \in 1..4 |-> scores[categories[i]]]) :
                        \A c \in Categories : scores[c] <= m

tied(scores) == {c \in Categories : scores[c] = maxScore(scores)}

firstOf(cs) == categories[CHOOSE i \in 1..4 :
                   categories[i] \in cs /\ \A j \in 1..(i - 1) : categories[j] \notin cs]

\* routePrompt classified the prompt of the request
Classified == pc = "routed" /\ req.prompt # <<>>

\* C1: when two or more categories share the highest positive score, the
\* category selected is the first of them in the order coding, reasoning,
\* creative, fast
C1_FirstOfTiedWins ==
    (Classified /\ maxScore(reqScores) > 0 /\ Cardinality(tied(reqScores)) >= 2)
        => routingResult.category = firstOf(tied(reqScores))

\* the configured keywords that occur in the normalized prompt of the request
occurringKeywords ==
    {kw \in UNION {Range(keywords[c]) : c \in Categories} :
        matchCount(normalizePrompt(req.prompt), kw) > 0}

\* C2: "Explain quantum physics", with "explain" a reasoning keyword and no
\* other configured keyword in the prompt, is classified as reasoning
C2_ExplainIsReasoning ==
    (/\ Classified
     /\ req.prompt = P_explain_quantum_physics
     /\ Word.explain \in Range(keywords["reasoning"])
     /\ occurringKeywords = {Word.explain})
        => routingResult.category = "reasoning"

\* 0.1 <= num/den <= 1.0
InUnitRange(r) == 10 * r.num >= r.den /\ r.num <= r.den

\* C3: the confidence of every routing result lies in [0.1, 1.0]: the one
\* calculateConfidence gives for each of the four categories, the one of the
\* default target and the one of a forced routing result
C3_ConfidenceInRange ==
    /\ routingResult.category # None => InUnitRange(routingResult.confidence)
    /\ Classified =>
          \A c \in Categories :
              InUnitRange(calculateConfidence(normalizePrompt(req.prompt), c, keywords))

\* a classified prompt whose confidence exceeded 1.0 before the clamp
C3_Witness ==
    /\ Classified
    /\ routingResult.category \in Categories
    /\ rawConfidence(routingResult.normalizedPrompt,
                     keywords[routingResult.category])
           > routingResult.confidence.den
    /\ routingResult.confidence.num = routingResult.confidence.den

\* sendRequest was called for the chat request and has ended
Dispatched == req.via = "chat" /\ pc = "done" /\ routingResult.category # None

\* C4: a dispatch to a provider without API key or without base URL fails
\* with PROVIDER_UNAVAILABLE, and no network call is made
C4_UnavailableProvider ==
    (Dispatched /\ ~isProviderAvailable(providers, routingResult.provider))
        => /\ outcome.kind = "error"
           /\ outcome.type = "PROVIDER_UNAVAILABLE"
           /\ netCalls = 0

ErrorKinds ==
    {"VALIDATION_ERROR", "AUTHENTICATION_ERROR", "RATE_LIMIT_ERROR",
     "MODEL_NOT_FOUND", "PROVIDER_UNAVAILABLE", "TIMEOUT_ERROR", "NETWORK_ERROR",
     "API_ERROR", "CONFIG_ERROR"}

\* C5: every failure of a dispatch reaches the caller as an error that
\* carries one kind of the taxonomy, never as a raw exception
C5_EveryFailureHasKind ==
    (Dispatched /\ outcome.kind = "error")
        => outcome.name = "Error" /\ outcome.type \in ErrorKinds

\* C6: every 2xx body of every provider yields a normalized response with a
\* string text and the three usage counters as numbers
C6_SuccessIsNormalized ==
    (pc = "done" /\ reply.kind = "ok")
        => /\ outcome.kind = "response"
           /\ outcome.text \in {"", "text"}
           /\ outcome.usage.promptTokens \in Nat
           /\ outcome.usage.completionTokens \in Nat
           /\ outcome.usage.totalTokens \in Nat

\* the chat request passed the request schema and the prompt validation
PromptAccepted ==
    /\ req.via = "chat"
    /\ validateRequest(req)
    /\ validatePrompt(req.prompt).isValid

\* C7: a request with forceProvider and forceModel that pass the override
\* validation is never classified, is dispatched to exactly that provider
\* and model, and has the routing metadata category "forced", confidence 1.0
C7_ForcedBypassesClassification ==
    (/\ PromptAccepted
     /\ req.forceProvider # NoProvider
     /\ req.forceModel # NoModel
     /\ validateModelProvider(req.forceProvider, req.forceModel, providers).isValid)
        => /\ routeCalls = 0
           /\ routingResult.provider = req.forceProvider
           /\ routingResult.model = req.forceModel
           /\ routingResult.category = "forced"
           /\ routingResult.confidence = Ratio(1, 1)
           /\ netCalls > 0 =>
                 /\ sent.provider = req.forceProvider
                 /\ sent.model = req.forceModel

\* a forced request that was answered by its provider
C7_Witness ==
    /\ pc = "done"
    /\ req.forceProvider = "anthropic"
    /\ req.forceModel = Model.claude_3_5_sonnet
    /\ outcome.kind = "response"
    /\ outcome.provider = "anthropic"
    /\ routeCalls = 0

C10_StatusTable ==
    (pc = "done" /\ reply.kind = "http")
        => /\ outcome.kind = "error"
           /\ outcome.type = CASE reply.status = 401 -> "AUTHENTICATION_ERROR"
                               [] reply.status = 429 -> "RATE_LIMIT_ERROR"
                               [] reply.status = 404 -> "MODEL_NOT_FOUND"
                               [] OTHER -> "API_ERROR"
           /\ outcome.status = reply.status

\* C15: normalizePrompt returns a lowercase string of word characters and
\* single spaces, without a run of two whitespace characters and without
\* leading or trailing whitespace
C15_NormalizedIsClean ==
    Classified =>
        LET n == routingResult.normalizedPrompt
        IN  /\ \A i \in 1..Len(n) :
                  n[i] \in (WordChars \ Range(UpperLetters)) \cup {" "}
            /\ \A i \in 1..(Len(n) - 1) : ~(IsSpace(n[i]) /\ IsSpace(n[i + 1]))
            /\ n # <<>> => ~IsSpace(n[1]) /\ ~IsSpace(n[Len(n)])

\* every word the classifier looks for on behalf of the category
triggersOf(c) ==
    includesTriggers[c] \cup wholeWordTriggers[c] \cup Range(keywords[c])

\* no word the classifier looks for is a whole word of the prompt
NoWholeWordTrigger(n) ==
    \A c \in Categories : ~matchesWholeWord(n, triggersOf(c))

\* C16: a prompt in which no trigger word and no configured keyword occurs
\* as a whole word gets no keyword score, no contextual bonus but the one
\* for its length, and no keyword hit in the confidence
C16_WholeWordsOnly ==
    (Classified /\ NoWholeWordTrigger(normalizePrompt(req.prompt)))
        => LET n == normalizePrompt(req.prompt)
               zero == [c \in Categories |-> 0]
           IN  /\ keywordScores(n, keywords) = zero
               /\ applyContextualAnalysis(n, zero) =
                     [zero EXCEPT !["fast"] =
                         IF Len(n) < FastContextLength THEN 1 ELSE 0]
               /\ \A c \in Categories : keywordHits(n, keywords[c]) = 0

\* keyword ratio plus length bonus of the classified prompt, in the units
\* of its confidence
ratioAndLength ==
    LET n == routingResult.normalizedPrompt
        kws == keywords[routingResult.category]
        d == confidenceUnit(kws)
    IN  Min(100 * keywordHits(n, kws), 10 * d)
          + (IF Len(n) > ConfidenceLongLength THEN d ELSE 0)

\* C17: for a prompt that contains "?" and whose keyword ratio and length
\* bonus sum to at most 0.9, the confidence is that sum plus 0.1
C17_QuestionBonus ==
    (/\ Classified
     /\ routingResult.category \in Categories
     /\ includes(req.prompt, <<"?">>)
     /\ ratioAndLength <= 9 * confidenceUnit(keywords[routingResult.category]))
        => routingResult.confidence.num =
              ratioAndLength + confidenceUnit(keywords[routingResult.category])

\* the prompt has only the signal of its length
OnlyFastSignal(n) ==
    /\ Len(n) < ShortLength
    /\ \A c \in Categories :
          /\ keywordScore(n, keywords[c], 1) = 0
          /\ keywordHits(n, keywords[c]) = 0
    /\ codingBonus(n) = 0
    /\ reasoningBonus(n) = 0
    /\ creativeBonus(n) = 0

\* C18: a prompt shorter than 30 that hits no configured keyword and no
\* contextual bonus of coding, reasoning or creative is classified as fast
\* with a confidence of at least 0.1
C18_ShortIsFast ==
    (Classified /\ OnlyFastSignal(normalizePrompt(req.prompt)))
        => /\ routingResult.category = "fast"
           /\ 10 * routingResult.confidence.num >= routingResult.confidence.den

\* "Hi" was classified
C18_Witness ==
    /\ Classified
    /\ req.prompt = P_hi
    /\ OnlyFastSignal(normalizePrompt(req.prompt))
    /\ routingResult.category = "fast"

\* no keyword of the categories cs occurs in the prompt
NoKeywordOf(cs, n) ==
    \A c \in cs : \A i \in 1..Len(keywords[c]) : ~includes(n, keywords[c][i])

\* C19: "Write a function to sort an array" is classified as coding under
\* every keyword configuration in which no reasoning, creative or fast
\* keyword occurs in the prompt
C19_WriteFunctionIsCoding ==
    (/\ Classified
     /\ req.prompt = P_write_function
     /\ NoKeywordOf({"reasoning", "creative", "fast"},
                    normalizePrompt(req.prompt)))
        => routingResult.category = "coding"

\* the prompt was classified with keyword lists none of which it hits
C19_Witness ==
    /\ Classified
    /\ req.prompt = P_write_function
    /\ keywords = FewKeywords
    /\ routingResult.category = "coding"

\* C11: the answer to a request that ended in RATE_LIMIT_ERROR from an
\* upstream 429 carries the seconds of the provider's Retry-After header
\* when the response has one, and 60 when it has none
C11_RetryAfterCarried ==
    (/\ pc = "done"
     /\ reply.kind = "http"
     /\ reply.status = 429
     /\ outcome.type = "RATE_LIMIT_ERROR")
        => createErrorResponse(outcome).retryAfter =
              IF reply.retryAfter = NoHeader THEN <<60>> ELSE reply.retryAfter

\* C12: a dispatch whose network call ends without an HTTP response fails
\* with TIMEOUT_ERROR exactly when the request timeout elapsed, and with
\* NETWORK_ERROR when the connection was refused or the name not resolved
C12_TimeoutOrNetwork ==
    /\ (pc = "done" /\ reply.kind \in {"timeout", "network", "dns"})
          => /\ outcome.kind = "error"
             /\ outcome.name = "Error"
             /\ outcome.type =
                   IF reply.kind = "timeout" THEN "TIMEOUT_ERROR" ELSE "NETWORK_ERROR"
    /\ (pc = "done" /\ outcome.type = "TIMEOUT_ERROR") => reply.kind = "timeout"

\* a request to a provider timed out
C12_Witness ==
    /\ pc = "done"
    /\ netCalls = 1
    /\ reply.kind = "timeout"
    /\ outcome.type = "TIMEOUT_ERROR"
    /\ outcome.provider = sent.provider

\* C13: when the provider that automatic routing selected is not available
\* and another provider is, the request is sent to an available provider
\* instead of failing
C13_FallbackProvider ==
    (/\ Dispatched
     /\ routingResult.category # "forced"
     /\ ~isProviderAvailable(providers, routingResult.provider)
     /\ getAvailableProviders(providers) # {})
        => /\ netCalls > 0
           /\ sent.provider \in getAvailableProviders(providers)

\* the request was sent to a provider
Sent == req.via = "chat" /\ netCalls > 0

\* C14: every generation parameter the caller supplies within its range
\* reaches the provider with exactly the supplied value, the boundary values
\* temperature 0 and topP 0 included: a default stands in the request of
\* the provider only for a parameter the caller left out (stated for the
\* parameters that the request of the provider carries)
C14_ParametersSentAsSupplied ==
    Sent =>
        \A k \in OptionKeys :
            (req.options[k] # Unset /\ sent.params[k] # Unset)
                => sent.params[k] = req.options[k]

\* C20: getAvailableProviders returns exactly the providers that have both
\* an API key and a base URL at the time of the call, also when the
\* configuration of providers was changed before the call
C20_AvailableProvidersCurrent ==
    pc = "listed" =>
        available = {p \in Providers : providers[p].apiKey /\ providers[p].baseUrl}

\* a call after the configuration of openai and of groq was changed
C20_Witness ==
    /\ pc = "listed"
    /\ toggled = {"openai", "groq"}
    /\ available = {"openai", "google"}

C22_HealthJoin ==
    /\ \A p \in Providers : probes[p].settled # "rejected"
    /\ pc = "probing" =>
          \A p \in Providers :
              (probes[p].settled # "none") = (p \in getAvailableProviders(providers))
    /\ pc = "health" =>
          /\ \A p \in getAvailableProviders(providers) :
                /\ probes[p].settled = "fulfilled"
                /\ Cardinality({x \in health.providers : x.provider = p}) = 1
          /\ \A x \in health.providers :
                /\ x.provider \in getAvailableProviders(providers)
                /\ x.status \in {"available", "unavailable"}
          /\ health.totalProviders = Cardinality(getAvailableProviders(providers))
          /\ health.status \in {"healthy", "unhealthy"}

\* a health check of four providers returned: two probes succeeded, one
\* timed out and one failed with an error without a type
C22_Witness ==
    /\ pc = "health"
    /\ health.totalProviders = 4
    /\ health.availableProviders = 2
    /\ \E x \in health.providers : x.type = "TIMEOUT_ERROR"
    /\ \E x \in health.providers : x.type = "UNKNOWN_ERROR"

\* C23: a request to /api/chat that arrives after the maximum number of
\* requests of the window is answered with a RATE_LIMIT_ERROR and is not
\* processed: it is not dispatched to a provider
C23_RateLimited ==
    (pc \in {"awaiting", "done"} /\ hits > RateLimitMax)
        => (outcome.type = "RATE_LIMIT_ERROR" /\ netCalls = 0)

\* C24: routePrompt resolves a classified prompt to the provider and model
\* of the routing entry of its category, and to the default target when the
\* routing map has no entry for the category
C24_TargetOfCategory ==
    Classified =>
        LET category == analyzePromptCategory(normalizePrompt(req.prompt), keywords)
            target == IF category \in DOMAIN routingModels
                      THEN routingModels[category] ELSE defaultModel
        IN  /\ routingResult.category = category
            /\ routingResult.provider = target.provider
            /\ routingResult.model = target.model

\* a prompt classified as coding was routed with a map that has no coding
\* entry, and went to the default target instead of the coding model
C24_Witness ==
    /\ Classified
    /\ routingResult.category = "coding"
    /\ "coding" \notin DOMAIN routingModels
    /\ routingResult.model = defaultModel.model
    /\ routingResult.model # EnvRoutingModels["coding"].model

\* C25: one dispatch issues at most one network call: when the chat handler
\* has finished, also with a failure of the provider call, the dispatch has
\* made no second call
C25_AtMostOneCall ==
    /\ netCalls <= 1
    /\ (pc = "done" /\ reply.kind \notin {"none", "ok"}) => netCalls = 1

\* a dispatch ended after its one call failed with an HTTP 500
C25_Witness ==
    /\ pc = "done"
    /\ reply.kind = "http"
    /\ reply.status = 500
    /\ outcome.kind = "error"
    /\ netCalls = 1

C27_ReplyInOwnConversation ==
    \A n \in 1..ui.answered :
        \E i \in 1..Len(ui.conversations[ui.origin[n]]) :
            LET message == ui.conversations[ui.origin[n]][i]
            IN  message.role = "assistant" /\ message.content[2] = n

\* C28: routePrompt always returns: for an empty prompt, a prompt that is
\* not a string, or an exception inside classification it returns the
\* default target with category "default" and confidence 0.5, and whenever
\* classification completes the category is one of the four
C28_DefaultOnFailure ==
    pc = "routed" =>
        IF \/ req.prompt \in {<<>>, P_object}
           \/ \E c \in Categories : \E i \in 1..Len(keywords[c]) :
                  RegExpThrows(keywords[c][i])
        THEN /\ routingResult.category = "default"
             /\ routingResult.confidence = Ratio(1, 2)
             /\ routingResult.provider = defaultModel.provider
             /\ routingResult.model = defaultModel.model
        ELSE routingResult.category \in Categories

\* a value that is not a string was routed to the default target
C28_Witness ==
    /\ pc = "routed"
    /\ req.prompt = P_object
    /\ routingResult.category = "default"
    /\ routingResult.isDefault

\* C29: when all four scores of a classified prompt are zero, so that
\* analyzePromptCategory asks fallbackCategoryAnalysis, the normalized prompt
\* has at least 50 characters and no "?", and the category is reasoning or
\* creative
C29_FallbackNeverFast ==
    (Classified /\ \A c \in Categories : reqScores[c] = 0)
        => /\ Len(normalizePrompt(req.prompt)) >= FallbackFastLength
           /\ ~includes(normalizePrompt(req.prompt), <<"?">>)
           /\ routingResult.category \in {"reasoning", "creative"}

\* a prompt with a question mark and without any signal was classified by
\* the fallback, as reasoning
C29_Witness ==
    /\ Classified
    /\ \A c \in Categories : reqScores[c] = 0
    /\ includes(req.prompt, <<"?">>)
    /\ routingResult.category = "reasoning"

\* C30: a request to a route that no handler matches is answered with the
\* HTTP status 404
C30_NotFoundIs404 ==
    (pc = "done" /\ req.via = "unmatched")
        => (outcome.status = 404 /\ createErrorResponse(outcome).status = 404)

====
